---- MODULE Spec2Model ----
(***************************************************************************)
(* The summonerd ceremony ledger (tools/summonerd/src/storage.rs): one     *)
(* SQLite store holding the table phase2_contributions, the Storage        *)
(* handles opened on it, and the contribution attempts that callers run    *)
(* against it (can_contribute -> current_crs -> validate ->                *)
(* commit_contribution).                                                    *)
(***************************************************************************)
EXTENDS Integers, Sequences, FiniteSets, TLC

\* ---------------------------------------------------------------- bounds
NumProcs == 2        \* participants, each served by one caller of the handle
MaxAmount == 2       \* largest total the chain observer reports
MaxContribs == 2     \* contributions the store accepts before the model stops
PoolSize == 1        \* connections of the pool (r2d2's max_size)

Procs == 1..NumProcs

\* Caller p serves the participant whose address is p.
Address(p) == p
\* SQL NULL: the slot of an INSERT that leaves the number to the store, and
\* the address of the root row.
NULL == -1

\* const MIN_BID_AMOUNT_U64: u64 = 1u64;
MIN_BID_AMOUNT_U64 == 1

\* The ban list of the admission contract. storage.rs keeps none ("Not
\* banned TODO"): it is an input of the environment, here the last address.
Banned == {Address(NumProcs)}

\* ------------------------------------------------------- CRS and payloads
\* A CRS is the chain of the addresses that transformed it; the genesis CRS
\* is the empty chain (Phase2CeremonyCRS::root()).
RootCRS == <<>>

\* A contribution carries the CRS it extends (parent) and the CRS it
\* produces (new_elements).
Contribute(tip, address) == [parent |-> tip, new |-> Append(tip, address)]

\* A contribution that extends no CRS of the ceremony.
Forged(address) == [parent |-> <<0>>, new |-> <<0, address>>]

new_elements(contribution) == contribution.new

\* The validation oracle for a contribution against a prior CRS.
validate_extends(raw, prior) ==
    /\ raw.parent = prior
    /\ Len(raw.new) = Len(prior) + 1
    /\ SubSeq(raw.new, 1, Len(prior)) = prior

\* pb::CeremonyCrs::try_from(root)?.encode_to_vec()
EncodeCrs(crs) == [msg |-> "CeremonyCrs", fields |-> <<crs>>]

\* PBContribution::try_from(contribution)?.encode_to_vec()
EncodeContribution(c) == [msg |-> "Contribution", fields |-> <<c.parent, c.new>>]

\* Result<T>: Ok(v) or an error.
Ok(v) == [ok |-> TRUE, val |-> v]
Err == [ok |-> FALSE, val |-> <<>>]

\* Phase2RawCeremonyCRS::try_from(pb::CeremonyCrs::decode(bytes)?)?.assume_valid()
DecodeCrs(bytes) ==
    IF bytes.msg = "CeremonyCrs" /\ Len(bytes.fields) = 1
    THEN Ok(bytes.fields[1])
    ELSE Err

\* Phase2RawCeremonyContribution::try_from(PBContribution::decode(bytes)?)?.assume_valid()
DecodeContribution(bytes) ==
    IF bytes.msg = "Contribution" /\ Len(bytes.fields) = 2
    THEN Ok([parent |-> bytes.fields[1], new |-> bytes.fields[2]])
    ELSE Err

\* ------------------------------------------------------------- the store
\* The database file at storage_path: whether the file exists, whether the
\* table phase2_contributions exists in it, and the table's committed rows
\* in insertion order.
NoFile == [file |-> FALSE, tables |-> FALSE, rows |-> <<>>]

Row(slot, is_root, contribution_or_crs, address) ==
    [slot |-> slot, is_root |-> is_root,
     contribution_or_crs |-> contribution_or_crs, address |-> address]

Slots(rows) == {rows[i].slot : i \in 1..Len(rows)}

MaxSlot(rows) == CHOOSE m \in Slots(rows) : \A n \in Slots(rows) : n <= m

\* The row a "SELECT ... ORDER BY slot DESC LIMIT 1" returns.
LastRow(rows) == CHOOSE r \in {rows[i] : i \in 1..Len(rows)} : r.slot = MaxSlot(rows)

\* storage/schema.sql: slot is the table's INTEGER PRIMARY KEY. An INSERT
\* with slot NULL gets the largest slot in the table plus one; an INSERT of a
\* slot the table already holds fails.
Insert(rows, row) ==
    LET slot == IF row.slot # NULL THEN row.slot
                ELSE IF rows = <<>> THEN 1
                ELSE MaxSlot(rows) + 1
    IN  IF slot \in Slots(rows)
        THEN [ok |-> FALSE, rows |-> rows]
        ELSE [ok |-> TRUE, rows |-> Append(rows, [row EXCEPT !.slot = slot])]

\* storage/schema.sql run by execute_batch: CREATE TABLE phase2_contributions,
\* which fails when the table exists.
CreateTables(db) ==
    IF db.tables
    THEN [ok |-> FALSE, db |-> db]
    ELSE [ok |-> TRUE, db |-> [db EXCEPT !.tables = TRUE, !.rows = <<>>]]

\* Storage::connect: opening the pool's connections creates the file when it
\* is missing (OpenFlags::default() holds SQLITE_OPEN_CREATE).
connect(db) == [db EXCEPT !.file = TRUE]

\* Mutant of initialize: CREATE TABLE IF NOT EXISTS and INSERT OR IGNORE, so
\* that an existing store is accepted in silence.
initialize_if_not_exists(db) ==
    IF db.tables
    THEN [ok |-> TRUE, db |-> db]
    ELSE [ok |-> TRUE,
          db |-> [db EXCEPT !.tables = TRUE,
                            !.rows = <<Row(0, TRUE, EncodeCrs(RootCRS), NULL)>>]]

\* The transaction of Storage::initialize: schema, then the root row; an
\* error rolls the whole transaction back.
initialize(db) ==
    LET created == CreateTables(db)
        ins == Insert(created.db.rows, Row(0, TRUE, EncodeCrs(RootCRS), NULL))
    IN  IF created.ok /\ ins.ok
        THEN [ok |-> TRUE, db |-> [created.db EXCEPT !.rows = ins.rows]]
        ELSE [ok |-> FALSE, db |-> db]

\* Mutant of load: it runs the schema again, dropping the table first.
load_recreating(db) ==
    [db EXCEPT !.file = TRUE, !.tables = TRUE,
               !.rows = <<Row(0, TRUE, EncodeCrs(RootCRS), NULL)>>]

\* Storage::load: connect, nothing else.
load(db) == connect(db)

\* Mutant of can_contribute: the bid has to be more than the minimum.
can_contribute_strict(amount) ==
    IF amount <= MIN_BID_AMOUNT_U64 THEN Ok(<<>>) ELSE Ok(<<amount>>)

\* Storage::can_contribute on the amount the chain observer reports: None is
\* the empty option, Some(amount) the option holding the amount.
can_contribute(amount) ==
    IF amount < MIN_BID_AMOUNT_U64 THEN Ok(<<>>) ELSE Ok(<<amount>>)

\* Mutant of current_crs: the query orders by slot ascending.
current_crs_ascending(db) ==
    IF ~db.tables \/ db.rows = <<>>
    THEN Err
    ELSE LET row == CHOOSE r \in {db.rows[i] : i \in 1..Len(db.rows)} :
                        \A n \in Slots(db.rows) : r.slot <= n
         IN  IF row.is_root
             THEN DecodeCrs(row.contribution_or_crs)
             ELSE LET c == DecodeContribution(row.contribution_or_crs)
                  IN  IF c.ok THEN Ok(new_elements(c.val)) ELSE Err

\* Storage::current_crs
current_crs(db) ==
    IF ~db.tables \/ db.rows = <<>>
    THEN Err
    ELSE LET row == LastRow(db.rows)
         IN  IF row.is_root
             THEN DecodeCrs(row.contribution_or_crs)
             ELSE LET c == DecodeContribution(row.contribution_or_crs)
                  IN  IF c.ok THEN Ok(new_elements(c.val)) ELSE Err

\* Mutant of commit_contribution: the caller numbers the slot itself, as the
\* count of rows plus one.
commit_contribution_counted(db, contributor, contribution) ==
    IF ~db.tables
    THEN [ok |-> FALSE, db |-> db]
    ELSE LET ins == Insert(db.rows,
                       Row(Len(db.rows) + 1, FALSE,
                           EncodeContribution(contribution), contributor))
         IN  [ok |-> ins.ok, db |-> [db EXCEPT !.rows = ins.rows]]

\* Mutant of commit_contribution: the row is flagged as a root, as in the
\* INSERT of initialize.
commit_contribution_as_root(db, contributor, contribution) ==
    IF ~db.tables
    THEN [ok |-> FALSE, db |-> db]
    ELSE LET ins == Insert(db.rows,
                       Row(NULL, TRUE, EncodeContribution(contribution), contributor))
         IN  [ok |-> ins.ok, db |-> [db EXCEPT !.rows = ins.rows]]

\* Mutant of commit_contribution: INSERT OR REPLACE at the largest slot, so
\* that the new row takes the place of the tip.
commit_contribution_replacing(db, contributor, contribution) ==
    IF ~db.tables \/ db.rows = <<>>
    THEN [ok |-> FALSE, db |-> db]
    ELSE [ok |-> TRUE,
          db |-> [db EXCEPT !.rows =
                     Append(SubSeq(db.rows, 1, Len(db.rows) - 1),
                            Row(MaxSlot(db.rows), FALSE,
                                EncodeContribution(contribution), contributor))]]

\* The transaction of Storage::commit_contribution.
commit_contribution(db, contributor, contribution) ==
    IF ~db.tables
    THEN [ok |-> FALSE, db |-> db]
    ELSE LET ins == Insert(db.rows,
                       Row(NULL, FALSE, EncodeContribution(contribution), contributor))
         IN  [ok |-> ins.ok, db |-> [db EXCEPT !.rows = ins.rows]]

\* Mutant of current_slot: SELECT COUNT(slot) in place of MAX(slot).
current_slot_counting(db) ==
    IF ~db.tables THEN Err
    ELSE Ok(<<Len(db.rows)>>)

\* Storage::current_slot
current_slot(db) ==
    IF ~db.tables THEN Err
    ELSE IF db.rows = <<>> THEN Ok(<<0>>)
    ELSE Ok(<<MaxSlot(db.rows)>>)

\* Mutant of root: the query of current_crs, the row of the largest slot,
\* decoded as a CRS.
root_of_tip(db) ==
    IF ~db.tables \/ db.rows = <<>>
    THEN Err
    ELSE DecodeCrs(LastRow(db.rows).contribution_or_crs)

\* Storage::root
root(db) ==
    IF ~db.tables \/ ~\E i \in 1..Len(db.rows) : db.rows[i].is_root
    THEN Err
    ELSE LET i == CHOOSE j \in 1..Len(db.rows) : db.rows[j].is_root
         IN  DecodeCrs(db.rows[i].contribution_or_crs)

\* ------------------------------------------------------------------ state
VARIABLES
    db,       \* the store at storage_path
    main,     \* where the task that opens the store stands
    opened,   \* what the last load / initialize returned to it
    pc,       \* pc[p]: where caller p stands in its contribution attempt
    addr,     \* addr[p]: the address of the candidate p is serving, or NULL
    ret,      \* ret[p]: the last call that returned to p and what it returned
    contrib,  \* contrib[p]: the validated contribution p holds
    audit,    \* what the last current_slot / root call of the auditor returned
    wtx,      \* the open write transaction: its owner and its uncommitted view
    holds     \* holds[c]: the pooled connections caller c has checked out

vars == <<db, main, opened, pc, addr, ret, contrib, audit, wtx, holds>>

\* The callers of pool.get(): the opening task (0) and the callers of the
\* handle.
Callers == {0} \cup Procs

\* No write transaction is open.
NoTx == [owner |-> NULL, db |-> NoFile]

NoContribution == [parent |-> <<>>, new |-> <<>>]

Returned(op, ok, val) == [op |-> op, ok |-> ok, val |-> val]

Nothing == Returned("-", TRUE, <<>>)

Init ==
    /\ db = NoFile
    /\ main = "none"
    /\ opened = Nothing
    /\ pc = [p \in Procs |-> "ready"]
    /\ addr = [p \in Procs |-> NULL]
    /\ ret = [p \in Procs |-> Nothing]
    /\ contrib = [p \in Procs |-> NoContribution]
    /\ audit = Nothing
    /\ wtx = NoTx
    /\ holds = [c \in Callers |-> 0]

\* --------------------------------------------------- opening the store
\* Storage::load_or_initialize: the existence probe, then load or initialize.
LoadOrInitialize ==
    /\ main = "none"
    /\ main' = IF db.file THEN "loi_load" ELSE "loi_init"
    /\ UNCHANGED <<db, opened, pc, addr, ret, contrib>>

\* Storage::load, called directly or by load_or_initialize. Pool::new fails
\* (io_ok = FALSE) when the location cannot be opened.
Load ==
    /\ main \in {"none", "loi_load"}
    /\ \E io_ok \in BOOLEAN :
         IF io_ok
         THEN /\ db' = load(db)
              /\ main' = "open"
              /\ opened' = Returned("load", TRUE, <<>>)
         ELSE /\ db' = db
              /\ main' = "none"
              /\ opened' = Returned("load", FALSE, <<>>)
    /\ UNCHANGED <<pc, addr, ret, contrib>>

\* Storage::initialize up to spawn_blocking: connect, which fails
\* (io_ok = FALSE) when the location cannot be opened.
Initialize ==
    /\ main \in {"none", "loi_init"}
    /\ \E io_ok \in BOOLEAN :
         IF io_ok
         THEN /\ db' = connect(db)
              /\ main' = "init_tx"
              /\ opened' = opened
         ELSE /\ db' = db
              /\ main' = "none"
              /\ opened' = Returned("initialize", FALSE, <<>>)
    /\ UNCHANGED <<pc, addr, ret, contrib>>

\* Storage::initialize, the blocking closure: one transaction, which an I/O
\* or encoding error (io_ok = FALSE) aborts.
InitializeTx ==
    /\ main = "init_tx"
    /\ \E io_ok \in BOOLEAN :
         LET r == IF io_ok THEN initialize(db) ELSE [ok |-> FALSE, db |-> db]
         IN  /\ db' = r.db
             /\ main' = IF r.ok THEN "open" ELSE "none"
             /\ opened' = Returned("initialize", r.ok, <<>>)
    /\ UNCHANGED <<pc, addr, ret, contrib>>

\* The Storage handle and its clones are dropped, once no call is in flight,
\* and with them what the calls on the handle returned.
Drop ==
    /\ main = "open"
    /\ \A p \in Procs : pc[p] = "ready"
    /\ main' = "none"
    /\ opened' = Nothing
    /\ ret' = [p \in Procs |-> Nothing]
    /\ UNCHANGED <<db, pc, addr, contrib>>

\* ------------------------------------------------ one contribution attempt
\* Step 1: Storage::can_contribute for the candidate's address; amount is
\* what knower.total_amount_sent_to_me reports.
CanContribute(p, amount) ==
    /\ main = "open"
    /\ pc[p] = "ready"
    /\ LET r == can_contribute(amount)
       IN  /\ ret' = [ret EXCEPT ![p] = Returned("can_contribute", r.ok, r.val)]
           /\ pc' = [pc EXCEPT ![p] = IF r.val # <<>> THEN "admitted" ELSE "ready"]
           /\ addr' = [addr EXCEPT ![p] = IF r.val # <<>> THEN Address(p) ELSE NULL]
    /\ UNCHANGED <<db, main, opened, contrib>>

\* Step 2: Storage::current_crs.
CurrentCrs(p) ==
    /\ pc[p] = "admitted"
    /\ LET r == current_crs(db)
       IN  /\ ret' = [ret EXCEPT ![p] = Returned("current_crs", r.ok, r.val)]
           /\ pc' = [pc EXCEPT ![p] = IF r.ok THEN "fetched" ELSE "ready"]
           /\ addr' = [addr EXCEPT ![p] = IF r.ok THEN @ ELSE NULL]
    /\ UNCHANGED <<db, main, opened, contrib>>

\* Steps 3 and 4: the candidate hands in a raw contribution, which is
\* validated against the tip fetched in step 2.
Validate(p, raw) ==
    /\ pc[p] = "fetched"
    /\ IF validate_extends(raw, ret[p].val)
       THEN /\ contrib' = [contrib EXCEPT ![p] = raw]
            /\ pc' = [pc EXCEPT ![p] = "validated"]
            /\ UNCHANGED <<addr, ret>>
       ELSE /\ ret' = [ret EXCEPT ![p] = Returned("validate", FALSE, <<>>)]
            /\ pc' = [pc EXCEPT ![p] = "ready"]
            /\ addr' = [addr EXCEPT ![p] = NULL]
            /\ UNCHANGED contrib
    /\ UNCHANGED <<db, main, opened>>

\* The validation of step 4 is cancelled before it ends: the attempt is
\* abandoned.
Cancel(p) ==
    /\ pc[p] = "fetched"
    /\ ret' = [ret EXCEPT ![p] = Returned("validate", FALSE, <<>>)]
    /\ pc' = [pc EXCEPT ![p] = "ready"]
    /\ addr' = [addr EXCEPT ![p] = NULL]
    /\ UNCHANGED <<db, main, opened, contrib>>

\* Mutant of CommitContribution: the call takes the raw contribution, so it
\* can be made before validation has accepted anything.
CommitContribution_raw(p) ==
    /\ pc[p] \in {"fetched", "validated"}
    /\ Len(db.rows) <= MaxContribs
    /\ \E io_ok \in BOOLEAN :
         LET c == IF pc[p] = "validated" THEN contrib[p] ELSE Forged(addr[p])
             r == IF io_ok THEN commit_contribution(db, addr[p], c)
                  ELSE [ok |-> FALSE, db |-> db]
         IN  /\ db' = r.db
             /\ ret' = [ret EXCEPT ![p] = Returned("commit_contribution", r.ok, <<>>)]
    /\ pc' = [pc EXCEPT ![p] = "ready"]
    /\ addr' = [addr EXCEPT ![p] = NULL]
    /\ contrib' = [contrib EXCEPT ![p] = NoContribution]
    /\ UNCHANGED <<main, opened>>

\* Step 5: Storage::commit_contribution, one transaction, which an I/O error,
\* a busy database or a pool timeout (io_ok = FALSE) aborts.
CommitContribution(p) ==
    /\ pc[p] = "validated"
    /\ Len(db.rows) <= MaxContribs
    /\ \E io_ok \in BOOLEAN :
         LET r == IF io_ok THEN commit_contribution(db, addr[p], contrib[p])
                  ELSE [ok |-> FALSE, db |-> db]
         IN  /\ db' = r.db
             /\ ret' = [ret EXCEPT ![p] = Returned("commit_contribution", r.ok, <<>>)]
    /\ pc' = [pc EXCEPT ![p] = "ready"]
    /\ addr' = [addr EXCEPT ![p] = NULL]
    /\ contrib' = [contrib EXCEPT ![p] = NoContribution]
    /\ UNCHANGED <<main, opened>>

\* ------------------------------------------------------------ the auditor
\* Storage::current_slot, called on a clone of the handle.
CurrentSlot ==
    /\ main = "open"
    /\ LET r == current_slot(db)
       IN  audit' = Returned("current_slot", r.ok, r.val)
    /\ UNCHANGED <<db, main, opened, addr, ret, contrib>>

\* Storage::root, called on a clone of the handle.
Root ==
    /\ main = "open"
    /\ LET r == root(db)
       IN  audit' = Returned("root", r.ok, r.val)
    /\ UNCHANGED <<db, main, opened, addr, ret, contrib>>

Next ==
    \/ LoadOrInitialize /\ UNCHANGED <<audit, wtx, holds>>
    \/ Load /\ UNCHANGED <<audit, wtx, holds>>
    \/ Initialize /\ UNCHANGED <<audit, wtx, holds>>
    \/ InitializeTx /\ UNCHANGED <<audit, wtx, holds>>
    \/ Drop /\ UNCHANGED <<audit, wtx, holds>>
    \/ \E p \in Procs, amount \in 0..MaxAmount :
           CanContribute(p, amount) /\ UNCHANGED <<audit, wtx, holds>>
    \/ \E p \in Procs : CurrentCrs(p) /\ UNCHANGED <<audit, wtx, holds>>
    \/ \E p \in Procs :
           \E raw \in {Contribute(ret[p].val, addr[p]), Forged(addr[p])} :
               Validate(p, raw) /\ UNCHANGED <<audit, wtx, holds>>
    \/ \E p \in Procs : Cancel(p) /\ UNCHANGED <<audit, wtx, holds>>
    \/ \E p \in Procs : CommitContribution(p) /\ UNCHANGED <<audit, wtx, holds>>

Spec == Init /\ [][Next]_vars

\* The ledger with its read operations: the last of the callers audits the
\* store through current_slot and root while the others contribute.
Contributors == Procs \ {NumProcs}

NextRead ==
    \/ LoadOrInitialize /\ UNCHANGED <<audit, wtx, holds>>
    \/ Load /\ UNCHANGED <<audit, wtx, holds>>
    \/ Initialize /\ UNCHANGED <<audit, wtx, holds>>
    \/ InitializeTx /\ UNCHANGED <<audit, wtx, holds>>
    \/ Drop /\ audit' = Nothing /\ UNCHANGED <<wtx, holds>>
    \/ \E p \in Contributors, amount \in 0..MaxAmount :
           CanContribute(p, amount) /\ UNCHANGED <<audit, wtx, holds>>
    \/ \E p \in Contributors : CurrentCrs(p) /\ UNCHANGED <<audit, wtx, holds>>
    \/ \E p \in Contributors :
           \E raw \in {Contribute(ret[p].val, addr[p]), Forged(addr[p])} :
               Validate(p, raw) /\ UNCHANGED <<audit, wtx, holds>>
    \/ \E p \in Contributors : Cancel(p) /\ UNCHANGED <<audit, wtx, holds>>
    \/ \E p \in Contributors : CommitContribution(p) /\ UNCHANGED <<audit, wtx, holds>>
    \/ CurrentSlot /\ UNCHANGED <<pc, wtx, holds>>
    \/ Root /\ UNCHANGED <<pc, wtx, holds>>

SpecRead == Init /\ [][NextRead]_vars

\* ------------------------------------------- the write transactions, step
\* by step. A transaction works on its own view of the store (wtx.db), which
\* tx.commit() makes the store; dropping the transaction, on an error or
\* when the process dies, discards the view. SQLite admits one writer.

\* What a failed transaction of initialize leaves.
InitializeFailed ==
    /\ wtx' = NoTx
    /\ main' = "none"
    /\ opened' = Returned("initialize", FALSE, <<>>)
    /\ db' = db

\* Mutant of InitializeSchema: the schema is run on the connection, outside
\* the transaction, so that it is committed at once.
InitializeSchema_autocommit ==
    /\ main = "init_tx"
    /\ \E io_ok \in BOOLEAN :
         LET created == CreateTables(db)
         IN  IF io_ok /\ wtx = NoTx /\ created.ok
             THEN /\ wtx' = [owner |-> 0, db |-> created.db]
                  /\ db' = created.db
                  /\ main' = "init_root"
                  /\ opened' = opened
             ELSE InitializeFailed
    /\ UNCHANGED <<pc, addr, ret, contrib>>

\* initialize: conn.transaction() and tx.execute_batch(schema.sql).
InitializeSchema ==
    /\ main = "init_tx"
    /\ \E io_ok \in BOOLEAN :
         LET created == CreateTables(db)
         IN  IF io_ok /\ wtx = NoTx /\ created.ok
             THEN /\ wtx' = [owner |-> 0, db |-> created.db]
                  /\ db' = db
                  /\ main' = "init_root"
                  /\ opened' = opened
             ELSE InitializeFailed
    /\ UNCHANGED <<pc, addr, ret, contrib>>

\* initialize: the root is built and encoded, and its row inserted.
InitializeRoot ==
    /\ main = "init_root"
    /\ \E io_ok \in BOOLEAN :
         LET ins == Insert(wtx.db.rows, Row(0, TRUE, EncodeCrs(RootCRS), NULL))
         IN  IF io_ok /\ ins.ok
             THEN /\ wtx' = [wtx EXCEPT !.db.rows = ins.rows]
                  /\ db' = db
                  /\ main' = "init_commit"
                  /\ opened' = opened
             ELSE InitializeFailed
    /\ UNCHANGED <<pc, addr, ret, contrib>>

\* initialize: tx.commit() and Ok(Storage { pool }).
InitializeCommit ==
    /\ main = "init_commit"
    /\ \E io_ok \in BOOLEAN :
         IF io_ok
         THEN /\ db' = wtx.db
              /\ wtx' = NoTx
              /\ main' = "open"
              /\ opened' = Returned("initialize", TRUE, <<>>)
         ELSE InitializeFailed
    /\ UNCHANGED <<pc, addr, ret, contrib>>

\* What commit_contribution leaves in its caller when it returns.
CommitReturns(p, ok) ==
    /\ ret' = [ret EXCEPT ![p] = Returned("commit_contribution", ok, <<>>)]
    /\ pc' = [pc EXCEPT ![p] = "ready"]
    /\ addr' = [addr EXCEPT ![p] = NULL]
    /\ contrib' = [contrib EXCEPT ![p] = NoContribution]

\* commit_contribution: conn.transaction(), the contribution is encoded and
\* its row inserted; the insert fails when another writer holds the store.
CommitInsert(p) ==
    /\ pc[p] = "validated"
    /\ Len(db.rows) <= MaxContribs
    /\ \E io_ok \in BOOLEAN :
         LET r == commit_contribution(db, addr[p], contrib[p])
         IN  IF io_ok /\ wtx = NoTx /\ r.ok
             THEN /\ wtx' = [owner |-> p, db |-> r.db]
                  /\ pc' = [pc EXCEPT ![p] = "inserted"]
                  /\ UNCHANGED <<addr, ret, contrib>>
             ELSE /\ wtx' = wtx
                  /\ CommitReturns(p, FALSE)
    /\ UNCHANGED <<db, main, opened>>

\* commit_contribution: tx.commit() and Ok(()).
CommitCommit(p) ==
    /\ pc[p] = "inserted"
    /\ \E io_ok \in BOOLEAN :
         /\ db' = IF io_ok THEN wtx.db ELSE db
         /\ CommitReturns(p, io_ok)
    /\ wtx' = NoTx
    /\ UNCHANGED <<main, opened>>

\* The process dies: what it held in memory is gone, an open transaction
\* with it; the store is what was committed.
Crash ==
    /\ main # "none"
    /\ main' = "none"
    /\ opened' = Nothing
    /\ pc' = [p \in Procs |-> "ready"]
    /\ addr' = [p \in Procs |-> NULL]
    /\ ret' = [p \in Procs |-> Nothing]
    /\ contrib' = [p \in Procs |-> NoContribution]
    /\ audit' = Nothing
    /\ wtx' = NoTx
    /\ UNCHANGED <<db, holds>>

NextTx ==
    \/ LoadOrInitialize /\ UNCHANGED <<audit, wtx, holds>>
    \/ Load /\ UNCHANGED <<audit, wtx, holds>>
    \/ Initialize /\ UNCHANGED <<audit, wtx, holds>>
    \/ InitializeSchema /\ UNCHANGED <<audit, holds>>
    \/ InitializeRoot /\ UNCHANGED <<audit, holds>>
    \/ InitializeCommit /\ UNCHANGED <<audit, holds>>
    \/ Drop /\ audit' = Nothing /\ UNCHANGED <<wtx, holds>>
    \/ \E p \in Contributors, amount \in 0..MaxAmount :
           CanContribute(p, amount) /\ UNCHANGED <<audit, wtx, holds>>
    \/ \E p \in Contributors : CurrentCrs(p) /\ UNCHANGED <<audit, wtx, holds>>
    \/ \E p \in Contributors :
           \E raw \in {Contribute(ret[p].val, addr[p]), Forged(addr[p])} :
               Validate(p, raw) /\ UNCHANGED <<audit, wtx, holds>>
    \/ \E p \in Contributors : CommitInsert(p) /\ UNCHANGED <<audit, holds>>
    \/ \E p \in Contributors : CommitCommit(p) /\ UNCHANGED <<audit, holds>>
    \/ CurrentSlot /\ UNCHANGED <<pc, wtx, holds>>
    \/ Root /\ UNCHANGED <<pc, wtx, holds>>
    \/ Crash

SpecTx == Init /\ [][NextTx]_vars

\* ------------------------------------------------- the connection pool
\* Every operation on the store begins with pool.get() and holds the pooled
\* connection in a local (conn), which is dropped, and so handed back to the
\* pool, when the operation returns, by its last line or by a `?`.
Auditor == NumProcs

\* Caller c stands in an operation that uses the pool: the opening task in
\* the closure of initialize, a contributor in current_crs or
\* commit_contribution, the auditor in current_slot or root.
InCall(c) ==
    IF c = 0 THEN main = "init_tx"
    ELSE IF c = Auditor THEN pc[c] = "auditing"
    ELSE pc[c] \in {"admitted", "validated"}

CheckedOut == Cardinality({c \in Callers : holds[c] > 0})

\* The auditor starts a read.
AuditCall ==
    /\ main = "open"
    /\ pc[Auditor] = "ready"
    /\ pc' = [pc EXCEPT ![Auditor] = "auditing"]
    /\ UNCHANGED <<db, main, opened, addr, ret, contrib, audit, wtx, holds>>

\* pool.get() hands out a connection that is not checked out.
Get(c) ==
    /\ InCall(c)
    /\ holds[c] = 0
    /\ CheckedOut < PoolSize
    /\ holds' = [holds EXCEPT ![c] = 1]
    /\ UNCHANGED <<db, main, opened, pc, addr, ret, contrib, audit, wtx>>

\* Mutant of GetTimeout: the pool has no connection_timeout, pool.get()
\* waits for as long as it takes.
GetTimeout_never(c) ==
    /\ InCall(c)
    /\ holds[c] < 0
    /\ UNCHANGED vars

\* pool.get() has waited for the pool's connection_timeout with every
\* connection checked out: it returns an error, which `?` returns from the
\* operation.
GetTimeout(c) ==
    /\ InCall(c)
    /\ holds[c] = 0
    /\ CheckedOut >= PoolSize
    /\ IF c = 0
       THEN /\ main' = "none"
            /\ opened' = Returned("pool.get", FALSE, <<>>)
            /\ UNCHANGED <<pc, addr, ret, contrib, audit>>
       ELSE IF c = Auditor
       THEN /\ audit' = Returned("pool.get", FALSE, <<>>)
            /\ pc' = [pc EXCEPT ![c] = "ready"]
            /\ UNCHANGED <<main, opened, addr, ret, contrib>>
       ELSE /\ ret' = [ret EXCEPT ![c] = Returned("pool.get", FALSE, <<>>)]
            /\ pc' = [pc EXCEPT ![c] = "ready"]
            /\ addr' = [addr EXCEPT ![c] = NULL]
            /\ contrib' = [contrib EXCEPT ![c] = NoContribution]
            /\ UNCHANGED <<main, opened, audit>>
    /\ UNCHANGED <<db, wtx, holds>>

\* Mutant of Release: the connection is kept out of the pool (mem::forget)
\* when the operation returns.
Release_leaking(c) == holds' = holds

\* conn goes out of scope: the connection is back in the pool.
Release(c) == holds' = [holds EXCEPT ![c] = 0]

\* commit_contribution on a store that takes no more rows: the INSERT
\* fails.
CommitFull(p) ==
    /\ pc[p] = "validated"
    /\ Len(db.rows) > MaxContribs
    /\ CommitReturns(p, FALSE)
    /\ UNCHANGED <<db, main, opened>>

\* The operations, each run on the connection its caller holds.
PooledInitializeTx ==
    holds[0] = 1 /\ InitializeTx /\ Release(0) /\ UNCHANGED <<audit, wtx>>

PooledCurrentCrs(p) ==
    holds[p] = 1 /\ CurrentCrs(p) /\ Release(p) /\ UNCHANGED <<audit, wtx>>

PooledCommitContribution(p) ==
    /\ holds[p] = 1
    /\ CommitContribution(p) \/ CommitFull(p)
    /\ Release(p)
    /\ UNCHANGED <<audit, wtx>>

PooledCurrentSlot ==
    /\ pc[Auditor] = "auditing" /\ holds[Auditor] = 1
    /\ CurrentSlot
    /\ pc' = [pc EXCEPT ![Auditor] = "ready"]
    /\ Release(Auditor)
    /\ UNCHANGED wtx

PooledRoot ==
    /\ pc[Auditor] = "auditing" /\ holds[Auditor] = 1
    /\ Root
    /\ pc' = [pc EXCEPT ![Auditor] = "ready"]
    /\ Release(Auditor)
    /\ UNCHANGED wtx

\* The operation caller c stands in runs and returns.
Run(c) ==
    IF c = 0 THEN PooledInitializeTx
    ELSE IF c = Auditor THEN PooledCurrentSlot \/ PooledRoot
    ELSE PooledCurrentCrs(c) \/ PooledCommitContribution(c)

\* The callers of one handle and its pool: the handle is opened and kept,
\* the candidates bid nothing or the minimum and hand in contributions that
\* extend the tip they were given.
NextPool ==
    \/ LoadOrInitialize /\ UNCHANGED <<audit, wtx, holds>>
    \/ Load /\ UNCHANGED <<audit, wtx, holds>>
    \/ Initialize /\ UNCHANGED <<audit, wtx, holds>>
    \/ \E p \in Contributors, amount \in 0..MIN_BID_AMOUNT_U64 :
           CanContribute(p, amount) /\ UNCHANGED <<audit, wtx, holds>>
    \/ \E p \in Contributors :
           \E raw \in {Contribute(ret[p].val, addr[p])} :
               Validate(p, raw) /\ UNCHANGED <<audit, wtx, holds>>
    \/ AuditCall
    \/ \E c \in Callers : Get(c)
    \/ \E c \in Callers : GetTimeout(c)
    \/ \E c \in Callers : Run(c)

SpecPool == Init /\ [][NextPool]_vars

\* Scheduling: a caller inside pool.get() comes out of it, with a connection
\* or with the timeout error, and a caller holding a connection runs its
\* operation to its return.
FairSpecPool ==
    /\ SpecPool
    /\ \A c \in Callers : WF_vars(Get(c) \/ GetTimeout(c))
    /\ \A c \in Callers : WF_vars(Run(c))

\* ----------------------------------------------------------------- claims
NonRoot(rows) == {i \in 1..Len(rows) : ~rows[i].is_root}

\* The contribution stored in a non-root row.
Stored(row) == DecodeContribution(row.contribution_or_crs).val

\* The CRS a row stands for: the root CRS, or the new elements of its
\* contribution.
CrsOf(row) ==
    IF row.is_root THEN DecodeCrs(row.contribution_or_crs).val
    ELSE new_elements(Stored(row))

InAttempt(p) == pc[p] \in {"admitted", "fetched", "validated"}

\* C1: of the commit_contribution calls whose contributions were validated
\* against the same tip, exactly one commits a slot: no two committed
\* contributions extend the same tip.
C1_OneWinnerPerTip ==
    \A i, j \in NonRoot(db.rows) :
        i # j => Stored(db.rows[i]).parent # Stored(db.rows[j]).parent

\* C2: every committed non-root slot k holds a contribution that was
\* validated against the CRS derived from slot k-1.
C2_ExtendsPreviousSlot ==
    \A i \in NonRoot(db.rows) :
        \E j \in 1..Len(db.rows) :
            /\ db.rows[j].slot = db.rows[i].slot - 1
            /\ Stored(db.rows[i]).parent = CrsOf(db.rows[j])

\* C3: the committed slot numbers are exactly 0..K for K appended rows,
\* unique and strictly increasing in commit order; a store without tables
\* holds no slot.
C3_SlotsGapFree ==
    /\ ~db.tables => db.rows = <<>>
    /\ db.tables =>
          /\ Slots(db.rows) = 0..(Len(db.rows) - 1)
          /\ \A i, j \in 1..Len(db.rows) : i < j => db.rows[i].slot < db.rows[j].slot

\* C3 witness: MaxContribs contributions are committed and an append has
\* failed.
C3_Witness ==
    /\ Len(db.rows) = MaxContribs + 1
    /\ \E p \in Procs : ret[p] = Returned("commit_contribution", FALSE, <<>>)

\* C4: an initialized store has exactly one root row, slot 0, with a NULL
\* contributor; every other row is not a root and has a contributor.
C4_SingleRoot ==
    db.tables =>
        /\ Cardinality({i \in 1..Len(db.rows) : db.rows[i].is_root}) = 1
        /\ \A i \in 1..Len(db.rows) :
              IF db.rows[i].is_root
              THEN db.rows[i].slot = 0 /\ db.rows[i].address = NULL
              ELSE db.rows[i].slot > 0 /\ db.rows[i].address # NULL

\* C4 witness: the root and MaxContribs appended rows.
C4_Witness == db.tables /\ Cardinality(NonRoot(db.rows)) = MaxContribs

\* C5: current_crs on a freshly initialized store is the root CRS, and right
\* after a caller commits contribution C it is new_elements(C).
C5_TipDerivation ==
    [][ /\ (InitializeTx /\ opened'.ok) => current_crs(db') = Ok(RootCRS)
        /\ \A p \in Procs :
              (CommitContribution(p) /\ ret'[p].ok)
                  => current_crs(db') = Ok(new_elements(contrib[p])) ]_vars

\* C5 witness: a caller has fetched, after an append, a tip that is not the
\* root CRS.
C5_Witness ==
    \E p \in Procs :
        /\ ret[p].op = "current_crs" /\ ret[p].ok
        /\ ret[p].val # RootCRS
        /\ ret[p].val = CrsOf(LastRow(db.rows))

\* C6: load on an initialized store with K appended rows changes no slot,
\* and after it current_slot is K and current_crs is what it was.
C6_Reload ==
    [][ (Load /\ db.tables) =>
            /\ db'.rows = db.rows /\ db'.tables
            /\ current_slot(db') = Ok(<<Len(db.rows) - 1>>)
            /\ current_crs(db') = current_crs(db) ]_vars

\* C6 witness: the handle was dropped after MaxContribs commits and the
\* store loaded again.
C6_Witness ==
    /\ opened = Returned("load", TRUE, <<>>) /\ main = "open"
    /\ Len(db.rows) = MaxContribs + 1
    /\ \A p \in Procs : ret[p] = Nothing

C8_OneContributionPerAddress ==
    \A i, j \in NonRoot(db.rows) :
        i # j => db.rows[i].address # db.rows[j].address

\* C9: a banned address never obtains a bid and never becomes the
\* contributor of a slot.
C9_BannedRejected ==
    /\ \A p \in Procs : InAttempt(p) => addr[p] \notin Banned
    /\ \A i \in NonRoot(db.rows) : db.rows[i].address \notin Banned

\* C12: load fails unless the location holds a store with its table, and in
\* either case leaves the location as it was.
C12_LoadOnlyAttaches ==
    [][ Load =>
            /\ db' = db
            /\ opened'.ok => (db.file /\ db.tables) ]_vars

\* C13: a rejected or cancelled validation changes nothing in the store,
\* and a contribution row is only ever written by a caller whose
\* contribution passed validation against the tip it fetched: the row holds
\* that contribution and that caller's candidate.
C13_WrittenAfterValidation ==
    [][ /\ \A p \in Procs :
              (pc[p] = "fetched" /\ pc'[p] = "ready") => db' = db
        /\ Len(db'.rows) > Len(db.rows) /\ db.tables =>
              \E p \in Procs :
                  /\ pc[p] = "validated"
                  /\ validate_extends(contrib[p], ret[p].val)
                  /\ db'.rows = Append(db.rows,
                         Row(MaxSlot(db.rows) + 1, FALSE,
                             EncodeContribution(contrib[p]), Address(p))) ]_vars

\* C13 witness: a candidate's validation was rejected or cancelled while the
\* store holds contributions, none of them that candidate's.
C13_Witness ==
    \E p \in Procs :
        /\ ret[p] = Returned("validate", FALSE, <<>>)
        /\ Cardinality(NonRoot(db.rows)) = MaxContribs
        /\ \A i \in NonRoot(db.rows) : db.rows[i].address # Address(p)

C14_AppendOnly ==
    [][ /\ db.tables =>
              /\ db'.tables
              /\ Len(db'.rows) \in {Len(db.rows), Len(db.rows) + 1}
              /\ SubSeq(db'.rows, 1, Len(db.rows)) = db.rows
        /\ db'.rows # db.rows /\ db.tables =>
              \E p \in Procs : CommitContribution(p) /\ ret'[p].ok
        /\ (CurrentSlot \/ Root \/ Load) => db'.rows = db.rows /\ db'.tables = db.tables
        /\ \A p \in Procs :
              (CurrentCrs(p) \/ \E amount \in 0..MaxAmount : CanContribute(p, amount))
                  => db' = db ]_vars

\* C14 witness: the store was filled, dropped and loaded again, and the
\* auditor has read it since.
C14_Witness ==
    /\ opened = Returned("load", TRUE, <<>>)
    /\ Len(db.rows) = MaxContribs + 1
    /\ audit.op # "-"
    /\ \E p \in Procs : ret[p].op = "current_crs"

\* What current_tip is to validate before it returns: the payload of the
\* largest slot decodes and, when it is a contribution, extends the CRS of
\* the slot before it.
TipValid(rows) ==
    LET last == LastRow(rows)
    IN  IF last.is_root
        THEN DecodeCrs(last.contribution_or_crs).ok
        ELSE /\ DecodeContribution(last.contribution_or_crs).ok
             /\ \E j \in 1..Len(rows) :
                    /\ rows[j].slot = last.slot - 1
                    /\ validate_extends(Stored(last), CrsOf(rows[j]))

\* C15: current_crs returns a CRS only when the payload of the largest slot
\* decodes and passes validation; otherwise it fails.
C15_TipValidated ==
    [][ \A p \in Procs :
            (CurrentCrs(p) /\ db.tables /\ db.rows # <<>> /\ ret'[p].ok)
                => TipValid(db.rows) ]_vars

\* C16: current_slot on an initialized store returns the largest committed
\* slot number as it stands when the query runs: 0 with the root alone, K
\* with K contributions appended.
C16_CurrentSlotIsMax ==
    [][ (CurrentSlot /\ db.tables) =>
            /\ audit' = Returned("current_slot", TRUE,
                                 <<Cardinality(NonRoot(db.rows))>>)
            /\ \A n \in Slots(db.rows) : n <= audit'.val[1]
            /\ audit'.val[1] \in Slots(db.rows) ]_vars

\* C16 witness: current_slot has returned MaxContribs on a store holding
\* MaxContribs contributions.
C16_Witness ==
    /\ audit = Returned("current_slot", TRUE, <<MaxContribs>>)
    /\ Cardinality(NonRoot(db.rows)) = MaxContribs

\* C17: root on an initialized store returns the genesis CRS, whatever has
\* been appended since and whatever the tip is.
C17_RootIsGenesis ==
    [][ (Root /\ db.tables) => audit' = Returned("root", TRUE, RootCRS) ]_vars

\* C17 witness: root was read while the tip is a contribution: the store
\* holds MaxContribs of them.
C17_Witness ==
    /\ audit = Returned("root", TRUE, RootCRS)
    /\ Len(db.rows) = MaxContribs + 1
    /\ current_crs(db) # Ok(RootCRS)

\* C18: a caller holds at most one pooled connection, and only while it
\* stands in an operation on the store; the connections checked out never
\* exceed the pool's capacity, and are none when no operation is in flight.
C18_ConnectionsReturned ==
    /\ \A c \in Callers : holds[c] \in {0, 1}
    /\ \A c \in Callers : holds[c] = 1 => InCall(c)
    /\ CheckedOut <= PoolSize
    /\ (\A c \in Callers : ~InCall(c)) => \A c \in Callers : holds[c] = 0

\* C18 witness: an operation has returned an error to its caller, which
\* holds no connection, while the pool is exhausted by another caller.
C18_Witness ==
    /\ CheckedOut = PoolSize
    /\ \E p \in Contributors :
          /\ ~InCall(p) /\ holds[p] = 0
          /\ ret[p] = Returned("commit_contribution", FALSE, <<>>)

\* A caller waits in pool.get() on an exhausted pool.
Blocked(c) == InCall(c) /\ holds[c] = 0 /\ CheckedOut >= PoolSize

\* pool.get() returned its timeout error to caller c, whose operation ended
\* with it.
TimedOut(c) ==
    /\ ~InCall(c)
    /\ IF c = 0 THEN opened.op = "pool.get"
       ELSE IF c = Auditor THEN audit.op = "pool.get"
       ELSE ret[c].op = "pool.get"

\* C20, as stated: a caller waiting in pool.get() leaves the wait only with
\* a connection.
C20_BlockedAcquires ==
    [][ \A c \in Callers :
            (InCall(c) /\ holds[c] = 0) => (InCall(c)' /\ holds'[c] \in {0, 1}) ]_vars

\* C20, amended: under fair scheduling a caller blocked on the exhausted pool
\* eventually acquires a connection or fails with the pool's timeout error,
\* and every started operation eventually returns.
C20_BlockedResolves ==
    /\ [][ \A c \in Callers :
               (InCall(c) /\ holds[c] = 0 /\ ~InCall(c)') => TimedOut(c)' ]_vars
    /\ \A c \in Callers : []<>(~Blocked(c))
    /\ \A c \in Callers : []<>(~InCall(c))

\* C20 witness: a caller is blocked on the exhausted pool while another
\* caller holds the connection it waits for.
C20_Witness ==
    \E c \in Callers :
        /\ Blocked(c)
        /\ \E d \in Callers \ {c} : holds[d] = 1 /\ InCall(d)

\* C19: when load_or_initialize returns a handle, by its load branch or by
\* its initialize branch, the store holds the root slot: root and
\* current_crs succeed.
C19_OpenedHasRoot ==
    [][ (\/ main = "loi_load" /\ Load /\ opened'.ok
         \/ InitializeTx /\ opened'.ok)
            => root(db').ok /\ current_crs(db').ok ]_vars

\* C10: initialize on a store that already holds its tables fails, the
\* error reaches the caller, and the store is left as it was.
C10_InitializeExisting ==
    [][ (InitializeTx /\ db.tables) =>
            /\ opened' = Returned("initialize", FALSE, <<>>)
            /\ main' = "none"
            /\ db' = db ]_vars

\* C10 witness: the last initialize failed on a store holding the root and
\* an appended row.
C10_Witness ==
    /\ opened = Returned("initialize", FALSE, <<>>)
    /\ db.tables /\ Len(db.rows) >= 2

====
